---- MODULE Spec2Model ----
(***************************************************************************)
(* Frame driver of yanyaengine (src/window.rs) together with the debug     *)
(* "updated buffers" guard of drawable objects (src/object.rs), the        *)
(* occluding plane (src/occluding_plane.rs), the in-place model swap of    *)
(* an object and the name lookup of the assets (src/assets.rs).            *)
(*                                                                         *)
(* One window event is one step.  handle_redraw is computed by the         *)
(* operators below on a record that threads the HandleEventInfo fields,    *)
(* the objects' markers and the trace of calls made during the tick.       *)
(***************************************************************************)
EXTENDS Integers, Sequences, FiniteSets, TLC

\* the drawable objects the user app owns
Objects == {1}

\* longest recorded history of guard calls on the single object of SpecGuard
MaxCalls == 5

\* values of inner_size() components that the window system reports
Widths == {0, 800}
Heights == {0, 600}
SurfaceSizes == Widths \X Heights

\* Option<bool>
None == <<>>
Some(x) == <<x>>

\* Result of RenderInfo::recreate, of acquire_next_image and of
\* then_signal_fence_and_flush, as far as the callers distinguish them
RecreateResults == {"Ok", "Err"}
AcquireResults == {"Ok", "Suboptimal", "OutOfDate", "Err"}
FlushResults == {"Ok", "OutOfDate", "Err"}

\* what the user app does with one object in its update and draw callbacks
AppCalls == SUBSET {"update_buffers", "draw"}

\* element counts of a Model (vertices, uvs, indices): empty or not
ModelShapes == [vertices : 0..1, uvs : 0..1, indices : 0..1, content : {"a"}]

\* min_image_count: capabilities.min_image_count.max(2)
ImageCount == 2
Images == 0..(ImageCount - 1)

VARIABLES
    info,           \* HandleEventInfo: initialized, recreate_swapchain,
                    \* window_resized, frame_parity, fence, engine, user_app
    surface_size,   \* render_info.surface_size(): <<width, height>>
    objects,        \* per object: model (counts) and updated_buffers
    fence_reads,    \* objects whose subbuffer the submission guarded by
                    \* info.fence reads or writes
    panicked,       \* "none", or the panic that ended the process
    last,           \* the last step and the calls it made
    age,            \* per object: run frames since its marker was last set
    guard,          \* SpecGuard: updated_buffers of one object
    calls,          \* SpecGuard: history of guard calls on that object
    plane,          \* SpecOccluder: one OccludingPlane
    occ,            \* SpecOccluder: the last call on the plane and its effects
    memo,           \* SpecOccluder: inputs and results of an earlier update
    object,         \* SpecObject: one Object with its buffer regions
    object_call,    \* SpecObject: the last call on the object
    assets,         \* SpecAssets: one IdsStorage of Assets and its folder
    asset_call,     \* SpecAssets: the last call on the storage
    registered      \* SpecAssets: per name as the caller gave it, the id of
                    \* the asset last inserted under it

\* the frame loop's and the guard's variables, but for panicked
loopVars == <<info, surface_size, objects, fence_reads, last, age, guard, calls>>
occluderVars == <<plane, occ, memo>>
objectVars == <<object, object_call>>
assetVars == <<assets, asset_call, registered>>

\* the variables of the specifications other than the frame loop's and the
\* guard's
others == <<occluderVars, objectVars, assetVars>>

vars == <<info, surface_size, objects, fence_reads, panicked, last, age,
          guard, calls, others>>

----------------------------------------------------------------------------
\* impl_updated_check (debug builds)

\* variant: the marker is written only while it is empty
set_updated_once(updated_buffers, frame_parity) ==
    IF updated_buffers = None THEN Some(frame_parity) ELSE updated_buffers

set_updated(updated_buffers, frame_parity) == Some(frame_parity)

\* variant: any marker passes, whatever the parity
assert_updated_any(updated_buffers, frame_parity) ==
    updated_buffers # None

assert_updated(updated_buffers, frame_parity) ==
    updated_buffers = Some(frame_parity)

\* Object::calculate_vertices: one vertex per zipped (vertex, uv) pair
calculate_vertices(model) ==
    IF model.vertices <= model.uvs THEN model.vertices ELSE model.uvs

\* Object::needs_draw
needs_draw(model) == model.indices # 0

\* NormalGraphicalObject::normal_update_buffers: the marker is set and the
\* upload recorded only when there are vertices
WritesBuffer(obj) == calculate_vertices(obj.model) # 0

normal_update_buffers(obj, frame_parity) ==
    IF ~WritesBuffer(obj)
    THEN obj
    ELSE [obj EXCEPT !.updated_buffers = set_updated(@, frame_parity)]

\* Object::draw up to the assertion: TRUE when the draw panics
DrawPanics(obj, frame_parity) ==
    /\ needs_draw(obj.model)
    /\ ~assert_updated(obj.updated_buffers, frame_parity)

\* model.indices as a list: as many elements as the count says, of the
\* values the model's content stands for
IndexList(model) == [k \in 1..model.indices |-> <<model.content, k>>]

\* Object::new: the vertex region has one element per model vertex, the
\* index region one per model index; index_data is what the index region
\* holds, the copy of the model's indices written at construction
NewObject(model) ==
    [ model |-> model, subbuffer |-> model.vertices,
      indices |-> model.indices, index_data |-> IndexList(model),
      updated_buffers |-> None ]

\* run frames since the update that last set the object's marker: None
\* (never set), Some(0) (the current frame), Some(1) (an odd number of frames
\* ago), Some(2) (an even number of frames ago)
NextAge(a, marked) ==
    IF marked THEN Some(0)
    ELSE IF a = None THEN None
    ELSE IF a = Some(1) THEN Some(2) ELSE Some(1)

----------------------------------------------------------------------------
\* the record threaded through handle_redraw

Emit(s, call) == [s EXCEPT !.log = Append(@, call)]
Panic(s, cause) == [s EXCEPT !.panicked = cause]
Return(s) == [s EXCEPT !.returned = TRUE]
Stopped(s) == s.returned \/ s.panicked # "none"

\* variant: the first tick is asked to recreate the swapchain
InitInfoRecreating ==
    [ initialized |-> FALSE, recreate_swapchain |-> TRUE,
      window_resized |-> FALSE, frame_parity |-> FALSE,
      fence |-> "None", fence_image |-> <<>>,
      engine |-> FALSE, user_app |-> FALSE ]

\* HandleEventInfo::from; fence_image is the image index of the submission
\* whose completion the stored fence signals
InitInfo ==
    [ initialized |-> FALSE, recreate_swapchain |-> FALSE,
      window_resized |-> FALSE, frame_parity |-> FALSE,
      fence |-> "None", fence_image |-> <<>>,
      engine |-> FALSE, user_app |-> FALSE ]

NoEvent ==
    [ event |-> "none", handled |-> FALSE, log |-> <<>>, recreate |-> "none",
      acquire |-> "none", flush |-> "none", parity |-> FALSE, ran |-> FALSE,
      updated |-> {}, drawn |-> {}, passed |-> {}, unwaited |-> {},
      update_parity |-> None, draw_parity |-> None, image_index |-> None,
      framebuffer |-> None, presented |-> None ]

Start(i, objs, reads) ==
    [ info |-> i, objects |-> objs, fence_reads |-> reads,
      panicked |-> "none", returned |-> FALSE, log |-> <<>>,
      recreate |-> "none",
      acquire |-> "none", flush |-> "none", parity |-> FALSE, ran |-> FALSE,
      updated |-> {}, drawn |-> {}, passed |-> {}, unwaited |-> {},
      update_parity |-> None, draw_parity |-> None, image_index |-> None,
      framebuffer |-> None, presented |-> None ]

----------------------------------------------------------------------------
\* handle_redraw, lines 915-940: recreate and its notifications

\* variant: a resize alone does not recreate
NeedsRecreateFlagOnly(i) == i.recreate_swapchain

NeedsRecreate(i) ==
    i.recreate_swapchain \/ (i.initialized /\ i.window_resized)

\* RenderInfo::recreate(redraw_window): the swapchain and the framebuffers are
\* rebuilt, the viewport and the pipelines only when redraw_window is set
Recreate(s, redraw_window, result) ==
    LET s1 == [Emit(s, "recreate") EXCEPT !.recreate = result] IN
    IF result = "Err" THEN s1
    ELSE IF redraw_window THEN Emit(Emit(s1, "swapchain"), "pipelines")
    ELSE Emit(s1, "swapchain")

\* variant: the user app is told before the engine
NotifyAppFirst(s) ==
    IF ~s.info.user_app THEN Panic(s, "unwrap user_app")
    ELSE
        LET s1 == Emit(s, "user_app.swap_pipelines")
            s2 == Emit(s1, "engine.swap_pipelines")
            s3 == IF s2.info.window_resized
                  THEN Emit(s2, "user_app.resize") ELSE s2
        IN [s3 EXCEPT !.info.window_resized = FALSE]

\* engine.swap_pipelines, user_app.swap_pipelines, user_app.resize
Notify(s) ==
    LET s1 == Emit(s, "engine.swap_pipelines") IN
    IF ~s1.info.user_app THEN Panic(s1, "unwrap user_app")
    ELSE
        LET s2 == Emit(s1, "user_app.swap_pipelines")
            s3 == IF s2.info.window_resized
                  THEN Emit(s2, "user_app.resize") ELSE s2
        IN [s3 EXCEPT !.info.window_resized = FALSE]

\* variant: window_resized is cleared after the block, entered or not
RecreateBlockClearing(s, result) ==
    IF ~NeedsRecreate(s.info) THEN [s EXCEPT !.info.window_resized = FALSE]
    ELSE
        LET s1 == [s EXCEPT !.info.recreate_swapchain = FALSE]
            s2 == Recreate(s1, s1.info.window_resized, result)
        IN  IF result = "Err" THEN Panic(s2, "recreate")
            ELSE IF ~s2.info.initialized THEN Return(s2)
            ELSE Notify(s2)

\* handle_redraw, lines 915-940: the recreate block
RecreateBlock(s, result) ==
    IF ~NeedsRecreate(s.info) THEN s
    ELSE
        LET s1 == [s EXCEPT !.info.recreate_swapchain = FALSE]
            s2 == Recreate(s1, s1.info.window_resized, result)
        IN  IF result = "Err" THEN Panic(s2, "recreate")
            ELSE IF ~s2.info.initialized THEN Return(s2)
            ELSE Notify(s2)

----------------------------------------------------------------------------
\* handle_redraw, lines 944-962: acquire_next_image

Acquire(s, result, image_index) ==
    LET s1 == [Emit(s, "acquire") EXCEPT !.acquire = result] IN
    IF result = "Err" THEN Panic(s1, "acquire")
    ELSE IF result = "OutOfDate" THEN s1
    ELSE [s1 EXCEPT !.image_index = Some(image_index)]

\* variant: OutOfDate is taken for an acquired image
AcquiredUnlessErr(result) == result # "Err"

\* Ok(x) => Some(x), Err(OutOfDate) => None
Acquired(result) == result \in {"Ok", "Suboptimal"}

\* variant: initialization is keyed on the missing user app
FirstFrameNoApp(s) ==
    IF ~s.info.user_app
    THEN LET s1 == Emit(Emit(s, "Engine::new"), "UserApp::init") IN
         [s1 EXCEPT !.info.initialized = TRUE,
                    !.info.engine = TRUE,
                    !.info.user_app = TRUE,
                    !.objects = [o \in Objects |-> NewObject(@[o].model)]]
    ELSE s

\* handle_redraw, lines 966-992: first-frame initialization
FirstFrame(s) ==
    IF ~s.info.initialized
    THEN LET s1 == Emit(Emit(s, "Engine::new"), "UserApp::init") IN
         [s1 EXCEPT !.info.initialized = TRUE,
                    !.info.engine = TRUE,
                    !.info.user_app = TRUE,
                    !.objects = [o \in Objects |-> NewObject(@[o].model)]]
    ELSE IF ~s.info.user_app THEN Return(s)
    ELSE s

----------------------------------------------------------------------------
\* run_frame: update callback, render pass with the draw callback

\* a fence the CPU has neither waited on nor seen signaled
Unobserved(fence) == fence \in {"Flushed", "Signaled"}

UpdateCallback(s, app, frame_parity) ==
    LET upd == {o \in Objects : "update_buffers" \in app[o]}
        written == {o \in upd : WritesBuffer(s.objects[o])}
    IN  [Emit(s, "update") EXCEPT
            !.objects = [o \in Objects |->
                            IF o \in upd
                            THEN normal_update_buffers(s.objects[o], frame_parity)
                            ELSE s.objects[o]],
            !.updated = upd,
            !.update_parity = Some(frame_parity),
            !.unwaited = IF Unobserved(s.info.fence)
                         THEN written \cap s.fence_reads ELSE {}]

DrawCallback(s, app, frame_parity) ==
    LET drawn == {o \in Objects : "draw" \in app[o]}
        failing == {o \in drawn : DrawPanics(s.objects[o], frame_parity)}
        reached == IF failing = {} THEN drawn
                   ELSE {o \in drawn : \A f \in failing : o < f}
        s1 == [Emit(s, "draw") EXCEPT
                  !.draw_parity = Some(frame_parity),
                  !.drawn = reached \cup
                            {o \in failing : \A f \in failing : o <= f},
                  !.passed = {o \in reached : needs_draw(s.objects[o].model)}]
    IN  IF failing # {} THEN Panic(s1, "assert_updated") ELSE s1

\* begin_render_pass on framebuffers[frame_info.image_index]
BeginRenderPass(s) ==
    [Emit(s, "begin_render_pass") EXCEPT !.framebuffer = s.image_index]

\* variant: the draw callback runs before the render pass is begun
run_frame_draw_outside(s, app, frame_parity) ==
    LET s1 == UpdateCallback(s, app, frame_parity)
        s2 == DrawCallback(s1, app, frame_parity)
        s3 == BeginRenderPass(s2)
    IN  IF s3.panicked # "none" THEN s3 ELSE Emit(s3, "end_render_pass")

run_frame(s, app, frame_parity) ==
    LET s1 == UpdateCallback(s, app, frame_parity)
        s2 == BeginRenderPass(s1)
        s3 == DrawCallback(s2, app, frame_parity)
    IN  IF s3.panicked # "none" THEN s3 ELSE Emit(s3, "end_render_pass")

\* the buffers the frame's command buffer refers to
FrameReads(s) ==
    {o \in s.updated : WritesBuffer(s.objects[o])} \cup s.passed

----------------------------------------------------------------------------
\* execute_builder

\* FenceSignalFuture::cleanup_finished: does not block
cleanup_finished(fence) == IF fence = "Signaled" THEN "Cleaned" ELSE fence

\* fence.take(): the stored future is dropped, which blocks until its fence
\* is signaled
TakeFence(s) ==
    IF s.info.fence = "None" THEN s
    ELSE [Emit(s, "fence.wait") EXCEPT !.info.fence = "None",
                                       !.info.fence_image = None,
                                       !.fence_reads = {}]

\* SwapchainPresentInfo::swapchain_image_index(swapchain, image_index)
Present(s, image_index) ==
    [Emit(s, "then_swapchain_present") EXCEPT !.presented = image_index]

\* variant: the present is chained right after the acquire
PresentThenExecute(s) ==
    Emit(Emit(Present(s, s.image_index), "then_execute"),
         "then_signal_fence_and_flush")

\* acquire_future.then_execute(..).then_swapchain_present(..)
\*     .then_signal_fence_and_flush()
SubmitChain(s) ==
    Emit(Present(Emit(s, "then_execute"), s.image_index),
         "then_signal_fence_and_flush")

execute_builder(s, result) ==
    LET s1 == TakeFence(s)
        s2 == SubmitChain(s1)
        s3 == [s2 EXCEPT !.flush = result]
    IN  CASE result = "Ok" ->
                [s3 EXCEPT !.info.fence = "Flushed",
                           !.info.fence_image = s3.presented,
                           !.fence_reads = FrameReads(s3)]
          [] result = "OutOfDate" ->
                [s3 EXCEPT !.info.fence = "None",
                           !.info.recreate_swapchain = TRUE]
          [] OTHER -> Panic([s3 EXCEPT !.info.fence = "None"], "flush")

----------------------------------------------------------------------------
\* handle_redraw, lines 964-1027: the frame

\* variant: the suboptimal report is dropped
KeepRecreate(recreate_swapchain, acquire) == recreate_swapchain

\* info.recreate_swapchain |= suboptimal
OrSuboptimal(recreate_swapchain, acquire) ==
    recreate_swapchain \/ acquire = "Suboptimal"

\* variant: the parity is left as it is
KeepParity(frame_parity) == frame_parity

\* info.frame_parity = !info.frame_parity
FlipParity(frame_parity) == ~frame_parity

Frame(s, app, flush) ==
    LET s1 == FirstFrame(s) IN
    IF Stopped(s1) THEN s1
    ELSE
        LET frame_parity == s1.info.frame_parity
            s2 == [s1 EXCEPT !.info.frame_parity = FlipParity(frame_parity),
                             !.parity = frame_parity,
                             !.ran = TRUE]
            s3 == run_frame(s2, app, frame_parity)
        IN  IF Stopped(s3) THEN s3
            ELSE
                LET s4 == [s3 EXCEPT
                              !.info.fence = cleanup_finished(@),
                              !.info.recreate_swapchain =
                                  OrSuboptimal(@, s3.acquire)]
                IN  execute_builder(s4, flush)

handle_redraw(i, objs, reads, in) ==
    LET s0 == Start(i, objs, reads)
        s1 == RecreateBlock(s0, in.recreate)
    IN  IF Stopped(s1) THEN s1
        ELSE
            LET s2 == Acquire(s1, in.acquire, in.image) IN
            IF Stopped(s2) \/ ~Acquired(s2.acquire) THEN s2
            ELSE Frame(s2, in.app, in.flush)

RedrawInputs ==
    [ recreate : RecreateResults, acquire : AcquireResults, image : Images,
      flush : FlushResults, app : [Objects -> AppCalls] ]

\* an input the tick does not consume is fixed, so that one tick is one step
Consumed(i, in) ==
    /\ ~NeedsRecreate(i) => in.recreate = "Ok"
    /\ (NeedsRecreate(i) /\ (in.recreate = "Err" \/ ~i.initialized)) =>
          in.acquire = "OutOfDate"
    /\ in.acquire \in {"OutOfDate", "Err"} => in.image = 0
    /\ (in.acquire \in {"OutOfDate", "Err"} \/ (i.initialized /\ ~i.user_app)) =>
          /\ in.flush = "Ok"
          /\ \A o \in Objects : in.app[o] = {}

----------------------------------------------------------------------------
\* OccludingPlane.  Coordinates are counted in halves (a stored 1 is 0.5),
\* so that the local base points (-0.5, 0, 0) and (0.5, 0, 0) are integers;
\* a point carries w = 2 and a direction w = 0.  The arithmetic is exact.

\* Model::square(1.0): 4 vertices, indices [0, 1, 2, 1, 3, 2]
SquareVertices == 4
SquareIndices == 6

MatVec(m, v) ==
    [i \in 1..4 |-> m[i][1] * v[1] + m[i][2] * v[2]
                    + m[i][3] * v[3] + m[i][4] * v[4]]

xy(v) == <<v[1], v[2]>>
with_w(v, w) == <<v[1], v[2], v[3], w>>
with_z(v, z) == <<v[1], v[2], z, v[4]>>

\* ObjectTransform::matrix(): affine matrices, as calculate_matrix builds them
Identity4 == << <<1, 0, 0, 0>>, <<0, 1, 0, 0>>, <<0, 0, 1, 0>>, <<0, 0, 0, 1>> >>
Transforms ==
    { Identity4,
      \* a quarter turn about z, moved by (1, 1, 0)
      << <<0, -1, 0, 1>>, <<1, 0, 0, 1>>, <<0, 0, 1, 0>>, <<0, 0, 0, 1>> >> }

\* the light origin, in halves
Origins == { <<-1, 0, 0>>, <<1, 0, 0>>, <<2, 1, 0>>, <<0, -4, 2>> }

\* info.projection_view
ProjectionViews ==
    { Identity4,
      \* y mirrored, z sheared into x, w taken from z
      << <<1, 0, 1, 0>>, <<0, -1, 0, 0>>, <<0, 0, 1, 0>>, <<0, 0, 1, 1>> >> }

\* OccludingPlane::new
NewPlane(transform, reverse_winding) ==
    [ transform |-> transform, subbuffer |-> SquareVertices,
      indices |-> SquareIndices, points |-> None, is_back |-> FALSE,
      reverse_winding |-> reverse_winding, updated_buffers |-> None ]

\* variant: the far point of the winding test is the offset from the origin
FarPointOffset(un_bottom_left, origin) ==
    << un_bottom_left[1] - origin[1], un_bottom_left[2] - origin[2],
       un_bottom_left[3] - origin[3] >>

\* un_bottom_left.xyz() + un_bottom_left.xyz() - origin
FarPoint(un_bottom_left, origin) ==
    << un_bottom_left[1] + un_bottom_left[1] - origin[1],
       un_bottom_left[2] + un_bottom_left[2] - origin[2],
       un_bottom_left[3] + un_bottom_left[3] - origin[3] >>

\* OccludingPlane::calculate_vertices
occluder_calculate_vertices(p, origin, projection_view) ==
    LET un_bottom_left == MatVec(p.transform, <<-1, 0, 0, 2>>)
        un_bottom_right == MatVec(p.transform, <<1, 0, 0, 2>>)
        un_top_left == << un_bottom_left[1] - origin[1],
                          un_bottom_left[2] - origin[2], 0 >>
        un_top_right == << un_bottom_right[1] - origin[1],
                           un_bottom_right[2] - origin[2], 0 >>
        bottom_left == MatVec(projection_view, un_bottom_left)
        z == bottom_left[3]
        bottom_right == with_z(MatVec(projection_view, un_bottom_right), z)
        top_left == with_z(MatVec(projection_view, with_w(un_top_left, 0)), z)
        top_right == with_z(MatVec(projection_view, with_w(un_top_right, 0)), z)
        far_left == FarPoint(un_bottom_left, origin)
        far_right == << un_bottom_right[1] + un_bottom_right[1] - origin[1],
                        un_bottom_right[2] + un_bottom_right[2] - origin[2] >>
        far == MatVec(projection_view, with_w(far_left, 2))
        i0 == << bottom_right[1] - bottom_left[1],
                 bottom_right[2] - bottom_left[2] >>
        i1 == << far[1] - bottom_left[1], far[2] - bottom_left[2] >>
    IN  [ vertices |-> IF ~p.reverse_winding
                       THEN <<bottom_left, top_left, bottom_right, top_right>>
                       ELSE <<top_right, top_left, bottom_right, bottom_left>>,
          points |-> [ bottom_left |-> xy(un_bottom_left),
                       bottom_right |-> xy(un_bottom_right),
                       top_left |-> xy(far_left),
                       top_right |-> far_right ],
          is_clockwise |-> (i0[1] * i1[2]) > (i0[2] * i1[1]),
          base |-> un_bottom_left,
          base_right |-> un_bottom_right,
          extrusion |-> un_top_left,
          near |-> xy(bottom_left),
          far |-> xy(far),
          area |-> i0[1] * i1[2] - i0[2] * i1[1] ]

\* variant: the winding flag is left out
IsBackUnwound(p, is_clockwise) == ~is_clockwise

\* variant: a plane that was back-facing stays back-facing
IsBackSticky(p, is_clockwise) ==
    p.is_back \/ ~(is_clockwise # p.reverse_winding)

\* self.is_back = !(is_clockwise ^ self.reverse_winding)
IsBack(p, is_clockwise) == ~(is_clockwise # p.reverse_winding)

\* OccludingPlane::update_buffers; uploads are the update_buffer commands
\* the call records
occluder_update_buffers(p, origin, projection_view, frame_parity) ==
    LET p1 == [p EXCEPT !.updated_buffers = set_updated(@, frame_parity)]
        c == occluder_calculate_vertices(p1, origin, projection_view)
        p2 == [p1 EXCEPT !.is_back = IsBack(p1, c.is_clockwise)]
    IN  IF p2.is_back
        THEN [ plane |-> [p2 EXCEPT !.points = None],
               calc |-> c, uploads |-> <<>> ]
        ELSE [ plane |-> [p2 EXCEPT !.points = Some(c.points)],
               calc |-> c,
               uploads |-> << [region |-> p2.subbuffer, data |-> c.vertices] >> ]

\* variant: the cached is_back is not consulted
occluder_draw_always(p, frame_parity) ==
    IF ~assert_updated(p.updated_buffers, frame_parity)
    THEN [ panicked |-> "assert_updated", draws |-> <<>> ]
    ELSE [ panicked |-> "none", draws |-> << p.indices >> ]

\* OccludingPlane::draw; draws are the draw_indexed commands the call records
occluder_draw(p, frame_parity) ==
    IF ~assert_updated(p.updated_buffers, frame_parity)
    THEN [ panicked |-> "assert_updated", draws |-> <<>> ]
    ELSE IF p.is_back THEN [ panicked |-> "none", draws |-> <<>> ]
    ELSE [ panicked |-> "none", draws |-> << p.indices >> ]

NoCall ==
    [ op |-> "none", updated |-> FALSE, inputs |-> None, calc |-> None,
      outputs |-> None, uploads |-> <<>>, before |-> None, drawn |-> FALSE,
      draw_parity |-> None, draws |-> <<>> ]

\* what an update is called with, and what it leaves behind
Inputs(p, origin, projection_view) ==
    [ transform |-> p.transform, reverse_winding |-> p.reverse_winding,
      origin |-> origin, projection_view |-> projection_view ]
Outputs(r) ==
    [ is_back |-> r.plane.is_back, points |-> r.plane.points,
      vertices |-> r.calc.vertices ]

InitPlane ==
    /\ plane = NewPlane(Identity4, FALSE)
    /\ occ = NoCall
    /\ memo = None

----------------------------------------------------------------------------
\* Object::set_inplace_model_same_sized

MaxModelLen == 2

\* Model: the lengths of its three lists, and what the lists hold
Models ==
    [ vertices : 0..MaxModelLen, uvs : 0..MaxModelLen,
      indices : 0..MaxModelLen, content : {"a", "b"} ]

\* variant: only the vertex count is compared
set_inplace_model_same_vertices(obj, model) ==
    IF obj.model.vertices # model.vertices
    THEN [ object |-> obj, panicked |-> "assert_eq vertices" ]
    ELSE [ object |-> [obj EXCEPT !.model = model], panicked |-> "none" ]

set_inplace_model_same_sized(obj, model) ==
    IF obj.model.vertices # model.vertices
    THEN [ object |-> obj, panicked |-> "assert_eq vertices" ]
    ELSE IF obj.model.indices # model.indices
    THEN [ object |-> obj, panicked |-> "assert_eq indices" ]
    ELSE [ object |-> [obj EXCEPT !.model = model], panicked |-> "none" ]

NoObjectCall ==
    [ op |-> "none", model |-> None, old |-> None, uploads |-> <<>>,
      draws |-> <<>> ]

\* the update_buffer command that normal_update_buffers records
ObjectUploads(obj) ==
    IF ~WritesBuffer(obj) THEN <<>>
    ELSE << [ region |-> obj.subbuffer,
              data |-> calculate_vertices(obj.model) ] >>

\* the draw_indexed command that Object::draw records, with the index
\* buffer it binds
ObjectDraws(obj, frame_parity) ==
    IF ~needs_draw(obj.model) \/ DrawPanics(obj, frame_parity) THEN <<>>
    ELSE << [ index_buffer |-> obj.index_data, size |-> obj.model.indices ] >>

InitObject ==
    /\ object = NewObject([vertices |-> 1, uvs |-> 1, indices |-> 1,
                           content |-> "a"])
    /\ object_call = NoObjectCall

----------------------------------------------------------------------------
\* Assets: one IdsStorage (the textures' or the models'), its folder, and
\* the lookups by name.  A name is the sequence of its characters.

MaxAssets == 4

\* DefaultTexture::Solid and DefaultModel::Square, by IntoStaticStr
DefaultName(kind) ==
    IF kind = "texture" THEN <<"S", "o", "l", "i", "d">>
    ELSE <<"S", "q", "u", "a", "r", "e">>

PlainNames == { <<"a">>, <<"d", "/", "a">>, <<"d", "\\", "a">> }
Names(kind) == PlainNames \cup {DefaultName(kind)}

\* item.0.replace('\\', "/")
Normalize(name) ==
    [i \in DOMAIN name |-> IF name[i] = "\\" THEN "/" ELSE name[i]]

\* HashMap::insert
MapInsert(map, key, value) ==
    [k \in DOMAIN map \cup {key} |-> IF k = key THEN value ELSE map[k]]

EmptyStorage == [ ids |-> <<>>, data |-> <<>> ]

\* IdsStorage::insert: the id is the index of the pushed item
IdsStorageInsert(storage, name, item) ==
    [ storage |-> [ ids |-> MapInsert(storage.ids, Normalize(name),
                                      Len(storage.data)),
                    data |-> Append(storage.data, item) ],
      id |-> Len(storage.data) ]

\* IdsStorage::push
IdsStoragePush(storage, item) ==
    [ storage |-> [storage EXCEPT !.data = Append(@, item)],
      id |-> Len(storage.data) ]

\* IdsStorage::get_id
get_id(storage, name) ==
    IF name \in DOMAIN storage.ids THEN Some(storage.ids[name]) ELSE None

\* Assets::default_texture / default_model: try_*_id(id.into()).unwrap()
default_id(a) ==
    LET found == get_id(a.storage, DefaultName(a.kind)) IN
    IF found = None THEN [ panicked |-> "unwrap default", id |-> None ]
    ELSE [ panicked |-> "none", id |-> found ]

\* Assets::texture_id / model_id
asset_id(a, name) ==
    LET found == get_id(a.storage, name) IN
    IF found # None
    THEN [ panicked |-> "none", id |-> found, fallback |-> FALSE ]
    ELSE [ panicked |-> default_id(a).panicked, id |-> default_id(a).id,
           fallback |-> TRUE ]

\* Assets::new: the folder's files are inserted first, the default asset
\* after them
NewAssets(kind, files) ==
    LET name == CHOOSE n \in files : TRUE
        loaded == IF files = {} THEN EmptyStorage
                  ELSE IdsStorageInsert(EmptyStorage, name, "file").storage
    IN  [ kind |-> kind, path |-> files # {}, files |-> files,
          storage |-> IdsStorageInsert(loaded, DefaultName(kind),
                                       "default").storage ]

\* the ids the insertions of Assets::new assigned, by the name given
NewRegistered(kind, files) ==
    LET name == CHOOSE n \in files : TRUE
        loaded == IF files = {} THEN <<>> ELSE MapInsert(<<>>, name, 0)
    IN  MapInsert(loaded, DefaultName(kind), IF files = {} THEN 0 ELSE 1)

NoAssetCall ==
    [ op |-> "none", name |-> None, id |-> None, fallback |-> FALSE ]

InitAssets ==
    /\ assets = NewAssets("texture", {})
    /\ asset_call = NoAssetCall
    /\ registered = NewRegistered("texture", {})

InitOthers ==
    /\ InitPlane
    /\ InitObject
    /\ InitAssets

----------------------------------------------------------------------------
\* WindowEventHandler::window_event

Event(name) == [NoEvent EXCEPT !.event = name]

Alive == panicked = "none"

\* variant: && in place of ||
BothZero(size) == size[1] = 0 /\ size[2] = 0

\* if x == 0 || y == 0 { return; }
ZeroSized(size) == size[1] = 0 \/ size[2] = 0

\* variant: the next redraw is requested only after a frame that was run
AfterRedrawIfRan(s) ==
    IF s.panicked = "none" /\ s.ran
    THEN Append(s.log, "request_redraw") ELSE s.log

\* the statement after handle_redraw: window.request_redraw(), reached
\* whenever handle_redraw returns
AfterRedraw(s) ==
    IF s.panicked = "none" THEN Append(s.log, "request_redraw") ELSE s.log

\* WindowEvent::RedrawRequested
RedrawRequested ==
    /\ Alive
    /\ IF ZeroSized(surface_size)
       THEN /\ last' = Event("RedrawRequested")
            /\ UNCHANGED <<info, objects, fence_reads, panicked, age>>
       ELSE \E in \in RedrawInputs :
              /\ Consumed(info, in)
              /\ \E s \in {handle_redraw(info, objects, fence_reads, in)} :
                 /\ info' = s.info
                 /\ objects' = s.objects
                 /\ fence_reads' = s.fence_reads
                 /\ panicked' = s.panicked
                 /\ age' = [o \in Objects |->
                              IF s.ran
                              THEN NextAge(age[o], o \in s.updated
                                                   /\ WritesBuffer(objects[o]))
                              ELSE age[o]]
                 /\ last' = [ event |-> "RedrawRequested", handled |-> TRUE,
                              log |-> AfterRedraw(s),
                              recreate |-> s.recreate,
                              acquire |-> s.acquire, flush |-> s.flush,
                              parity |-> s.parity, ran |-> s.ran,
                              updated |-> s.updated, drawn |-> s.drawn,
                              passed |-> s.passed,
                              unwaited |-> s.unwaited,
                              update_parity |-> s.update_parity,
                              draw_parity |-> s.draw_parity,
                              image_index |-> s.image_index,
                              framebuffer |-> s.framebuffer,
                              presented |-> s.presented ]
    /\ UNCHANGED <<surface_size, guard, calls, others>>

\* WindowEvent::CloseRequested
CloseRequested ==
    /\ Alive
    /\ info' = [info EXCEPT !.user_app = FALSE]
    /\ last' = Event("CloseRequested")
    /\ UNCHANGED <<surface_size, objects, fence_reads, panicked, age, guard, calls, others>>

\* WindowEvent::Resized: the window has its new inner size
Resized ==
    /\ Alive
    /\ \E size \in SurfaceSizes :
          /\ size # surface_size
          /\ surface_size' = size
    /\ info' = [info EXCEPT !.window_resized = TRUE]
    /\ last' = Event("Resized")
    /\ UNCHANGED <<objects, fence_reads, panicked, age, guard, calls, others>>

\* variant: the event is forwarded whenever the loop is initialized
ForwardsInitialized(i) == i.initialized

\* if !initialized { return; } ... if let Some(app) = user_app.as_mut()
Forwards(i) == i.initialized /\ i.user_app

\* an input event and the callback of the user app it led to, if any
InputEvent(name, callback, forwarded) ==
    [Event(name) EXCEPT !.log = IF forwarded THEN <<callback>> ELSE <<>>]

\* WindowEvent::CursorMoved
CursorMoved ==
    /\ Alive
    /\ last' = InputEvent("CursorMoved", "mouse_move",
                          IF ~info.initialized THEN FALSE
                          ELSE IF ZeroSized(surface_size) THEN FALSE
                          ELSE Forwards(info))
    /\ UNCHANGED <<info, surface_size, objects, fence_reads, panicked, age,
                   guard, calls, others>>

\* WindowEvent::MouseInput
MouseInput ==
    /\ Alive
    /\ last' = InputEvent("MouseInput", "input", Forwards(info))
    /\ UNCHANGED <<info, surface_size, objects, fence_reads, panicked, age,
                   guard, calls, others>>

\* WindowEvent::MouseWheel
MouseWheel ==
    /\ Alive
    /\ last' = InputEvent("MouseWheel", "input", Forwards(info))
    /\ UNCHANGED <<info, surface_size, objects, fence_reads, panicked, age,
                   guard, calls, others>>

\* WindowEvent::KeyboardInput
KeyboardInput ==
    /\ Alive
    /\ last' = InputEvent("KeyboardInput", "input", Forwards(info))
    /\ UNCHANGED <<info, surface_size, objects, fence_reads, panicked, age,
                   guard, calls, others>>

\* the GPU finishes the submission that the stored fence guards
GpuCompletes ==
    /\ Alive
    /\ info.fence = "Flushed"
    /\ info' = [info EXCEPT !.fence = "Signaled"]
    /\ last' = Event("GpuCompletes")
    /\ UNCHANGED <<surface_size, objects, fence_reads, panicked, age, guard, calls, others>>

Init ==
    /\ info = InitInfo
    /\ surface_size \in SurfaceSizes
    /\ objects \in [Objects -> {NewObject(m) : m \in ModelShapes}]
    /\ fence_reads = {}
    /\ panicked = "none"
    /\ last = NoEvent
    /\ age = [o \in Objects |-> None]
    /\ guard = None
    /\ calls = <<>>
    /\ InitOthers

Next ==
    \/ RedrawRequested
    \/ CloseRequested
    \/ Resized
    \/ CursorMoved
    \/ MouseInput
    \/ MouseWheel
    \/ KeyboardInput
    \/ GpuCompletes

Spec == Init /\ [][Next]_vars

----------------------------------------------------------------------------
\* the guard alone: any sequence of set_updated / assert_updated calls on one
\* object, starting from Object::new

SetUpdated ==
    /\ Alive
    /\ Len(calls) < MaxCalls
    /\ \E frame_parity \in BOOLEAN :
          /\ guard' = set_updated(guard, frame_parity)
          /\ calls' = Append(calls, [op |-> "set_updated",
                                     parity |-> frame_parity, ok |-> TRUE])
    /\ UNCHANGED <<info, surface_size, objects, fence_reads, panicked, last,
                   age, others>>

AssertUpdated ==
    /\ Alive
    /\ Len(calls) < MaxCalls
    /\ \E frame_parity \in BOOLEAN :
          LET ok == assert_updated(guard, frame_parity) IN
          /\ calls' = Append(calls, [op |-> "assert_updated",
                                     parity |-> frame_parity, ok |-> ok])
          /\ panicked' = IF ok THEN "none" ELSE "assert_updated"
    /\ UNCHANGED <<info, surface_size, objects, fence_reads, last, age, guard,
                   others>>

InitGuard ==
    /\ info = InitInfo
    /\ surface_size = <<800, 600>>
    /\ objects = [o \in Objects |->
                    NewObject([vertices |-> 1, uvs |-> 1, indices |-> 1,
                               content |-> "a"])]
    /\ fence_reads = {}
    /\ panicked = "none"
    /\ last = NoEvent
    /\ age = [o \in Objects |-> None]
    /\ guard = NewObject([vertices |-> 1, uvs |-> 1, indices |-> 1,
                               content |-> "a"]).updated_buffers
    /\ calls = <<>>
    /\ InitOthers

NextGuard ==
    \/ SetUpdated
    \/ AssertUpdated

SpecGuard == InitGuard /\ [][NextGuard]_vars

----------------------------------------------------------------------------
\* the frame loop at rest, for the specifications of single parts
InitLoop ==
    /\ info = InitInfo
    /\ surface_size = <<800, 600>>
    /\ objects = [o \in Objects |->
                    NewObject([vertices |-> 1, uvs |-> 1, indices |-> 1,
                               content |-> "a"])]
    /\ fence_reads = {}
    /\ panicked = "none"
    /\ last = NoEvent
    /\ age = [o \in Objects |-> None]
    /\ guard = None
    /\ calls = <<>>

\* a redraw tick can run a frame: the loop has not aborted, the window has
\* a nonzero size and the user app was not taken away
FrameEnabled ==
    /\ Alive
    /\ ~ZeroSized(surface_size)
    /\ info.initialized => info.user_app

\* a Resized event that gives the window a nonzero size
GrowWindow ==
    /\ Resized
    /\ ~ZeroSized(surface_size')

\* frames keep being run: frame_parity, which every run frame flips (line
\* 1004), changes again and again
FramesKeepRunning ==
    /\ []<>info.frame_parity
    /\ []<>~info.frame_parity

InitLive == InitLoop /\ InitOthers

\* the frame loop under a windowing system that makes the window visible
\* again whenever it keeps being hidden, and that keeps delivering redraws
\* whose acquire returns an image whenever a frame can be run again and
\* again: strong fairness of the growing Resized and of the tick that runs
\* a frame, the latter stated on its enabling condition and its effect
SpecLive ==
    /\ InitLive
    /\ [][Next]_vars
    /\ SF_vars(GrowWindow)
    /\ ([]<>FrameEnabled) => FramesKeepRunning

----------------------------------------------------------------------------
\* the occluder alone: planes are built, moved, updated and drawn in any order

\* OccludingPlane::new in place of the plane at hand
OccluderNew ==
    /\ Alive
    /\ \E transform \in Transforms, reverse_winding \in BOOLEAN :
          plane' = NewPlane(transform, reverse_winding)
    /\ occ' = [NoCall EXCEPT !.op = "new"]
    /\ UNCHANGED <<loopVars, panicked, memo, objectVars, assetVars>>

\* TransformContainer::set_transform, with the callback that recomputes the
\* matrix
OccluderSetTransform ==
    /\ Alive
    /\ \E transform \in Transforms :
          /\ transform # plane.transform
          /\ plane' = [plane EXCEPT !.transform = transform]
    /\ occ' = [NoCall EXCEPT !.op = "set_transform"]
    /\ UNCHANGED <<loopVars, panicked, memo, objectVars, assetVars>>

\* GameObject::update_buffers; memo keeps one call of the run, any one
OccluderUpdateBuffers ==
    /\ Alive
    /\ \E origin \in Origins, projection_view \in ProjectionViews,
          frame_parity \in BOOLEAN,
          keep \in IF memo = None THEN BOOLEAN ELSE {FALSE} :
          \E r \in {occluder_update_buffers(plane, origin, projection_view,
                                            frame_parity)} :
             /\ plane' = r.plane
             /\ occ' = [NoCall EXCEPT
                           !.op = "update_buffers",
                           !.updated = TRUE,
                           !.inputs = Some(Inputs(plane, origin, projection_view)),
                           !.calc = Some(r.calc),
                           !.outputs = Some(Outputs(r)),
                           !.uploads = r.uploads,
                           !.before = Some(plane.is_back)]
             /\ memo' = IF keep
                        THEN Some([ inputs |-> Inputs(plane, origin,
                                                      projection_view),
                                    outputs |-> Outputs(r),
                                    before |-> plane.is_back ])
                        ELSE memo
    /\ UNCHANGED <<loopVars, panicked, objectVars, assetVars>>

\* GameObject::draw, in either parity
OccluderDraw ==
    /\ Alive
    /\ \E frame_parity \in BOOLEAN :
          \E r \in {occluder_draw(plane, frame_parity)} :
             /\ panicked' = r.panicked
             /\ occ' = [occ EXCEPT !.op = "draw", !.drawn = TRUE,
                                   !.draw_parity = Some(frame_parity),
                                   !.draws = r.draws]
    /\ UNCHANGED <<loopVars, plane, memo, objectVars, assetVars>>

InitOccluder ==
    /\ InitLoop
    /\ plane \in {NewPlane(t, w) : t \in Transforms, w \in BOOLEAN}
    /\ occ = [NoCall EXCEPT !.op = "new"]
    /\ memo = None
    /\ InitObject
    /\ InitAssets

NextOccluder ==
    \/ OccluderNew
    \/ OccluderSetTransform
    \/ OccluderUpdateBuffers
    \/ OccluderDraw

SpecOccluder == InitOccluder /\ [][NextOccluder]_vars

----------------------------------------------------------------------------
\* one object: built from a model, its model swapped in place

ObjectNew ==
    /\ Alive
    /\ \E model \in Models :
          /\ object' = NewObject(model)
          /\ object_call' = [NoObjectCall EXCEPT !.op = "new",
                                                  !.model = Some(model)]
    /\ UNCHANGED <<loopVars, panicked, occluderVars, assetVars>>

ObjectSetInplaceModel ==
    /\ Alive
    /\ \E model \in Models :
          \E r \in {set_inplace_model_same_sized(object, model)} :
             /\ object' = r.object
             /\ panicked' = r.panicked
             /\ object_call' = [NoObjectCall EXCEPT
                                   !.op = "set_inplace_model_same_sized",
                                   !.model = Some(model),
                                   !.old = Some(object.model)]
    /\ UNCHANGED <<loopVars, occluderVars, assetVars>>

\* GameObject::update_buffers of the object
ObjectUpdateBuffers ==
    /\ Alive
    /\ \E frame_parity \in BOOLEAN :
          /\ object' = normal_update_buffers(object, frame_parity)
          /\ object_call' = [NoObjectCall EXCEPT
                                !.op = "update_buffers",
                                !.uploads = ObjectUploads(object)]
    /\ UNCHANGED <<loopVars, panicked, occluderVars, assetVars>>

\* GameObject::draw of the object
ObjectDraw ==
    /\ Alive
    /\ \E frame_parity \in BOOLEAN :
          /\ panicked' = IF DrawPanics(object, frame_parity)
                          THEN "assert_updated" ELSE "none"
          /\ object_call' = [NoObjectCall EXCEPT
                                !.op = "draw",
                                !.draws = ObjectDraws(object, frame_parity)]
    /\ UNCHANGED <<loopVars, object, occluderVars, assetVars>>

InitObjectAlone ==
    /\ InitLoop
    /\ InitPlane
    /\ InitAssets
    /\ \E model \in Models :
          /\ object = NewObject(model)
          /\ object_call = [NoObjectCall EXCEPT !.op = "new",
                                                 !.model = Some(model)]

NextObject ==
    \/ ObjectNew
    \/ ObjectSetInplaceModel
    \/ ObjectUpdateBuffers
    \/ ObjectDraw

SpecObject == InitObjectAlone /\ [][NextObject]_vars

----------------------------------------------------------------------------
\* the assets alone: insertions of every kind and lookups by name

Insertable == Len(assets.storage.data) < MaxAssets

\* Assets::add_textures / add_models with one item
AssetsAdd ==
    /\ Alive
    /\ Insertable
    /\ \E name \in Names(assets.kind) :
          \E r \in {IdsStorageInsert(assets.storage, name, "added")} :
             /\ assets' = [assets EXCEPT !.storage = r.storage]
             /\ registered' = MapInsert(registered, name, r.id)
             /\ asset_call' = [NoAssetCall EXCEPT !.op = "add",
                                                  !.name = Some(name),
                                                  !.id = Some(r.id)]
    /\ UNCHANGED <<loopVars, panicked, occluderVars, objectVars>>

\* Assets::push_texture / push_model
AssetsPush ==
    /\ Alive
    /\ Insertable
    /\ \E r \in {IdsStoragePush(assets.storage, "pushed")} :
          /\ assets' = [assets EXCEPT !.storage = r.storage]
          /\ asset_call' = [NoAssetCall EXCEPT !.op = "push",
                                               !.id = Some(r.id)]
    /\ UNCHANGED <<loopVars, panicked, occluderVars, objectVars, registered>>

\* Assets::edited_copy: needs the folder, and in it the file of that name
AssetsEditedCopy ==
    /\ Alive
    /\ Insertable
    /\ assets.kind = "texture"
    /\ \E name \in Names(assets.kind) :
          IF ~assets.path
          THEN /\ panicked' = "cant edit empty assets"
               /\ asset_call' = [NoAssetCall EXCEPT !.op = "edited_copy",
                                                    !.name = Some(name)]
               /\ UNCHANGED <<assets, registered>>
          ELSE IF name \notin assets.files
          THEN /\ panicked' = "unwrap SimpleImage::load"
               /\ asset_call' = [NoAssetCall EXCEPT !.op = "edited_copy",
                                                    !.name = Some(name)]
               /\ UNCHANGED <<assets, registered>>
          ELSE \E r \in {IdsStorageInsert(assets.storage, name, "edited")} :
                  /\ assets' = [assets EXCEPT !.storage = r.storage]
                  /\ registered' = MapInsert(registered, name, r.id)
                  /\ asset_call' = [NoAssetCall EXCEPT !.op = "edited_copy",
                                                       !.name = Some(name),
                                                       !.id = Some(r.id)]
                  /\ UNCHANGED panicked
    /\ UNCHANGED <<loopVars, occluderVars, objectVars>>

\* Assets::texture_id / model_id (texture_by_name / model_by_name index the
\* data with that id)
AssetsLookup ==
    /\ Alive
    /\ \E name \in Names(assets.kind) :
          \E r \in {asset_id(assets, name)} :
             /\ panicked' = r.panicked
             /\ asset_call' = [ op |-> "lookup", name |-> Some(name),
                                id |-> r.id, fallback |-> r.fallback ]
    /\ UNCHANGED <<loopVars, occluderVars, objectVars, assets, registered>>

InitAssetsAlone ==
    /\ InitLoop
    /\ InitPlane
    /\ InitObject
    /\ \E kind \in {"texture", "model"} :
          \E files \in {{}} \cup {{n} : n \in Names(kind)} :
             /\ assets = NewAssets(kind, files)
             /\ registered = NewRegistered(kind, files)
    /\ asset_call = NoAssetCall

NextAssets ==
    \/ AssetsAdd
    \/ AssetsPush
    \/ AssetsEditedCopy
    \/ AssetsLookup

SpecAssets == InitAssetsAlone /\ [][NextAssets]_vars

----------------------------------------------------------------------------
\* reading the trace of a tick

Has(log, call) == \E k \in DOMAIN log : log[k] = call
Count(log, call) == Cardinality({k \in DOMAIN log : log[k] = call})
Before(log, a, b) ==
    \E k, l \in DOMAIN log : k < l /\ log[k] = a /\ log[l] = b

\* the step is a RedrawRequested event that reached handle_redraw
Tick == last'.event = "RedrawRequested" /\ last'.handled

FrameCalls ==
    { "update", "begin_render_pass", "draw", "end_render_pass",
      "then_execute", "then_swapchain_present", "then_signal_fence_and_flush" }
InitCalls == {"Engine::new", "UserApp::init"}

----------------------------------------------------------------------------
\* C1: in the frame loop the update callback of a frame never records a
\* write to an object's buffer while the fence of the earlier submission that
\* uses the same buffer has been neither waited on nor seen signaled.
C1_WriteAfterWait ==
    (last.event = "RedrawRequested" /\ last.ran) => last.unwaited = {}

\* C2: a tick whose acquire reports OutOfDate leaves recreate_swapchain set,
\* so that the next handled tick recreates before it acquires.
C2_StaleSetsRecreate ==
    (last.event = "RedrawRequested" /\ last.acquire = "OutOfDate")
        => info.recreate_swapchain

\* C3: a tick whose acquire reports OutOfDate makes no update, draw, submit,
\* present or initialization call and leaves frame_parity, fence and
\* initialized as they were.
C3_StaleTickSkipsFrame ==
    [][ (Tick /\ last'.acquire = "OutOfDate") =>
            /\ \A c \in FrameCalls \cup InitCalls : ~Has(last'.log, c)
            /\ ~last'.ran
            /\ info'.frame_parity = info.frame_parity
            /\ info'.fence = info.fence
            /\ info'.initialized = info.initialized
            /\ fence_reads' = fence_reads
            /\ panicked' = "none" ]_vars

C3_Witness ==
    /\ last.event = "RedrawRequested" /\ last.handled
    /\ last.acquire = "OutOfDate"
    /\ info.initialized /\ info.fence # "None" /\ info.frame_parity

\* C4: a failed recreate is transient: the process goes on, the tick is
\* skipped and recreate is due again on the next tick.
C4_RecreateFailureIsTransient ==
    (last.event = "RedrawRequested" /\ last.recreate = "Err") =>
        /\ panicked = "none"
        /\ ~Has(last.log, "acquire")
        /\ NeedsRecreate(info)

\* C5: a frame whose acquire reports suboptimal is not failed for it: unless
\* the draw guard or the flush aborts, the frame is recorded and its chain
\* flushed in that tick (in flight when the flush succeeds) with
\* recreate_swapchain left set; no recreate follows the acquire in that tick,
\* no other event recreates or touches the flag, and a handled tick that
\* starts with the flag set starts with recreate.
C5_SuboptimalDefersRecreate ==
    [][ /\ (Tick /\ last'.ran /\ last'.acquire = "Suboptimal") =>
              /\ panicked' \in {"none", "assert_updated", "flush"}
              /\ panicked' = "assert_updated" => last'.drawn # last'.passed
              /\ panicked' = "flush" => last'.flush = "Err"
              /\ panicked' = "none" =>
                    /\ \A c \in FrameCalls : Count(last'.log, c) = 1
                    /\ Before(last'.log, "acquire", "update")
                    /\ Before(last'.log, "update", "draw")
                    /\ Before(last'.log, "draw", "then_execute")
                    /\ Before(last'.log, "then_execute", "then_swapchain_present")
                    /\ Before(last'.log, "then_swapchain_present",
                              "then_signal_fence_and_flush")
                    /\ last'.flush = "Ok" => info'.fence = "Flushed"
                    /\ info'.recreate_swapchain
                    /\ ~Before(last'.log, "acquire", "recreate")
        /\ (Tick /\ info.recreate_swapchain) => last'.log[1] = "recreate"
        /\ ~Tick => /\ info'.recreate_swapchain = info.recreate_swapchain
                    /\ ~Has(last'.log, "recreate") ]_vars

C5_Witness ==
    /\ last.event = "RedrawRequested" /\ last.handled
    /\ last.log[1] = "recreate"
    /\ last.ran /\ last.acquire = "Suboptimal" /\ last.flush = "Ok"
    /\ info.recreate_swapchain /\ info.fence = "Flushed"

\* C6: a RedrawRequested event at a surface of zero width or zero height
\* makes no call at all and changes nothing of the frame-scheduling state.
C6_ZeroSizeRedrawIsSkipped ==
    [][ ( /\ last'.event = "RedrawRequested"
          /\ (surface_size[1] = 0 \/ surface_size[2] = 0) ) =>
              /\ ~last'.handled
              /\ last'.log = <<>>
              /\ info' = info
              /\ objects' = objects
              /\ fence_reads' = fence_reads
              /\ panicked' = panicked ]_vars

C6_Witness ==
    /\ last.event = "RedrawRequested" /\ ~last.handled
    /\ surface_size[1] # 0 /\ surface_size[2] = 0
    /\ info.initialized /\ info.window_resized /\ info.recreate_swapchain
    /\ info.fence # "None"

\* C7: with the engine initialized, the user app alive and window_resized
\* set, the first handled tick (recreate not failing) starts with exactly one
\* recreate, delivers exactly one swap_pipelines to the user app and clears
\* window_resized; every Resized event sets the flag and nothing but a handled
\* tick clears it.
C7_ResizeRecreatesOnce ==
    [][ /\ ( /\ Tick
             /\ info.initialized /\ info.user_app /\ info.window_resized
             /\ last'.recreate # "Err" ) =>
                /\ Count(last'.log, "recreate") = 1
                /\ last'.log[1] = "recreate"
                /\ Count(last'.log, "user_app.swap_pipelines") = 1
                /\ Before(last'.log, "recreate", "user_app.swap_pipelines")
                /\ ~info'.window_resized
        /\ last'.event = "Resized" => info'.window_resized
        /\ (info.window_resized /\ ~Tick) => info'.window_resized ]_vars

C7_Witness ==
    /\ last.event = "RedrawRequested" /\ last.handled
    /\ Has(last.log, "user_app.resize")
    /\ last.ran
    /\ ~info.window_resized

\* C8: Engine::new and UserApp::init run once each, only in a handled tick
\* at nonzero size after a successful acquire and only while initialized is
\* unset; initialized is set by that tick alone and never unset, and no update
\* or draw callback runs before the initialization.
C8_InitOnceAtFirstFrame ==
    [][ /\ (\E c \in InitCalls : Has(last'.log, c)) =>
              /\ Tick
              /\ ~info.initialized /\ info'.initialized
              /\ surface_size[1] # 0 /\ surface_size[2] # 0
              /\ last'.acquire \in {"Ok", "Suboptimal"}
              /\ \A c \in InitCalls : Count(last'.log, c) = 1
              /\ Before(last'.log, "acquire", "Engine::new")
              /\ Before(last'.log, "Engine::new", "UserApp::init")
        /\ info.initialized => info'.initialized
        /\ (info'.initialized /\ ~info.initialized) =>
              Has(last'.log, "UserApp::init")
        /\ \A c \in {"update", "draw"} :
              Has(last'.log, c) =>
                  \/ info.initialized
                  \/ Before(last'.log, "UserApp::init", c) ]_vars

C8_Witness ==
    /\ last.event = "RedrawRequested" /\ last.handled
    /\ Has(last.log, "UserApp::init") /\ Has(last.log, "draw")
    /\ info.initialized /\ info.window_resized

\* C9: in any sequence of guard calls on one object, assert_updated(p) passes
\* when the most recent set_updated was set_updated(p), and it panics when
\* no set_updated(p) was made since the object's construction.
C9_GuardFollowsLastSet ==
    \A n \in DOMAIN calls :
        calls[n].op = "assert_updated" =>
            LET sets == {k \in 1..(n - 1) : calls[k].op = "set_updated"}
                p == calls[n].parity
            IN  /\ ( /\ sets # {}
                     /\ \E k \in sets : /\ \A l \in sets : l <= k
                                        /\ calls[k].parity = p ) =>
                        calls[n].ok
                /\ (\A k \in sets : calls[k].parity # p) =>
                        /\ ~calls[n].ok
                        /\ panicked = "assert_updated"

C9_Witness ==
    /\ Len(calls) = 4
    /\ calls[1].op = "set_updated" /\ calls[2].op = "set_updated"
    /\ calls[1].parity # calls[2].parity
    /\ calls[3].op = "assert_updated" /\ calls[3].ok
    /\ calls[4].op = "assert_updated" /\ ~calls[4].ok

\* C10: in the frame loop a draw that reaches the updated-buffers check
\* passes it only if update_buffers was invoked on the object in that same
\* frame, and aborts otherwise.
C10_DrawNeedsSameFrameUpdate ==
    (last.event = "RedrawRequested" /\ last.ran) =>
        \A o \in last.drawn :
            (objects[o].model.indices # 0 /\ o \notin last.updated) =>
                /\ o \notin last.passed
                /\ panicked = "assert_updated"

\* C10 as amended: a draw that reaches the check passes exactly when the
\* update_buffers that last set the object's marker ran in the current frame
\* or an even number of run frames before it; it aborts when the marker was
\* never set or was last set an odd number of run frames before.
C10_DrawNeedsSameParityUpdate ==
    (last.event = "RedrawRequested" /\ last.ran) =>
        \A o \in last.drawn :
            objects[o].model.indices # 0 =>
                /\ o \in last.passed <=> age[o] \in {Some(0), Some(2)}
                /\ o \notin last.passed <=> panicked = "assert_updated"

C10_Witness ==
    /\ last.event = "RedrawRequested" /\ last.ran
    /\ \E o \in last.passed : o \notin last.updated /\ age[o] = Some(2)


----------------------------------------------------------------------------
\* C11: in every frame that is run, the update callback is invoked exactly
\* once and before the draw callback, which is invoked exactly once; update
\* precedes the begin of the render pass, draw lies inside the render pass,
\* both precede the submission, and both receive the parity the frame was
\* started with.
C11_UpdateThenDrawOncePerFrame ==
    [][ (Tick /\ last'.ran) =>
          LET log == last'.log IN
          /\ Count(log, "update") = 1
          /\ Count(log, "draw") = 1
          /\ Count(log, "begin_render_pass") = 1
          /\ Before(log, "update", "begin_render_pass")
          /\ Before(log, "begin_render_pass", "draw")
          /\ ~Before(log, "end_render_pass", "draw")
          /\ panicked' = "none" => Before(log, "draw", "end_render_pass")
          /\ Has(log, "then_execute") =>
                /\ Before(log, "update", "then_execute")
                /\ Before(log, "draw", "then_execute")
                /\ Before(log, "end_render_pass", "then_execute")
          /\ last'.update_parity = Some(info.frame_parity)
          /\ last'.draw_parity = last'.update_parity ]_vars

\* a second frame (parity TRUE) that updated, drew and was submitted
C11_Witness ==
    /\ last.ran
    /\ last.update_parity = Some(TRUE)
    /\ last.updated # {}
    /\ last.drawn # {}
    /\ Has(last.log, "then_signal_fence_and_flush")

----------------------------------------------------------------------------
\* C12: the parity handed to the first frame that is run is FALSE; a tick
\* that runs a frame hands it the stored parity and flips the stored parity
\* exactly once; every other step (a zero-size redraw, a stale acquire, a
\* redraw after the user app was closed, any other event) leaves the stored
\* parity as it is.
C12_ParityFlipsPerRunFrame ==
    [][ /\ (Tick /\ last'.ran) =>
              /\ last'.parity = info.frame_parity
              /\ info'.frame_parity = ~info.frame_parity
        /\ (Tick /\ last'.ran /\ ~info.initialized) => last'.parity = FALSE
        /\ ~(Tick /\ last'.ran) => info'.frame_parity = info.frame_parity
      ]_vars

\* a redraw that ran no frame while the stored parity was TRUE
C12_Witness ==
    /\ last.event = "RedrawRequested"
    /\ ~last.ran
    /\ info.initialized
    /\ info.frame_parity = TRUE

----------------------------------------------------------------------------
\* C13: every submitted frame is one chain in the order: acquire, execution
\* of the command buffer that this frame recorded, present, fence signal and
\* flush; the render pass targets the framebuffer of the image index that
\* this frame's acquire returned and the present is of that same index.
C13_SubmitChainOrder ==
    [][ (Tick /\ Has(last'.log, "then_execute")) =>
          LET log == last'.log IN
          /\ Count(log, "acquire") = 1
          /\ Count(log, "then_execute") = 1
          /\ Count(log, "then_swapchain_present") = 1
          /\ Count(log, "then_signal_fence_and_flush") = 1
          /\ Before(log, "acquire", "end_render_pass")
          /\ Before(log, "end_render_pass", "then_execute")
          /\ Before(log, "then_execute", "then_swapchain_present")
          /\ Before(log, "then_swapchain_present",
                    "then_signal_fence_and_flush")
          /\ last'.image_index # None
          /\ last'.framebuffer = last'.image_index
          /\ last'.presented = last'.image_index ]_vars

\* a submitted frame that presented image 1
C13_Witness ==
    /\ last.flush = "Ok"
    /\ last.image_index = Some(1)
    /\ last.presented = Some(1)
    /\ Has(last.log, "then_signal_fence_and_flush")


----------------------------------------------------------------------------
\* C20: in a tick of an initialized engine that recreates the swapchain with
\* success, the tick's calls begin with the recreate, then swap_pipelines
\* of the engine, then swap_pipelines of the user app, then resize of the
\* user app exactly when the window was resized, and the acquire, the update
\* and the draw come only after all of these.  (With the user app dropped
\* the tick ends at the unwrap that follows the engine's swap_pipelines.)
C20_RecreateNotificationOrder ==
    [][ (Tick /\ info.initialized /\ last'.recreate = "Ok") =>
          LET log == last'.log
              rebuilt == IF info.window_resized
                         THEN <<"recreate", "swapchain", "pipelines">>
                         ELSE <<"recreate", "swapchain">>
              told == IF info.window_resized
                      THEN <<"engine.swap_pipelines",
                             "user_app.swap_pipelines", "user_app.resize">>
                      ELSE <<"engine.swap_pipelines",
                             "user_app.swap_pipelines">>
              head == rebuilt \o told \o <<"acquire">>
          IN  IF info.user_app
              THEN /\ Len(log) >= Len(head)
                   /\ SubSeq(log, 1, Len(head)) = head
                   /\ \A k \in DOMAIN log :
                         k > Len(head) =>
                            log[k] \notin {"recreate", "acquire",
                                           "engine.swap_pipelines",
                                           "user_app.swap_pipelines",
                                           "user_app.resize"}
                   /\ \A k \in DOMAIN log :
                         log[k] \in {"update", "draw"} => k > Len(head)
              ELSE /\ log = rebuilt \o <<"engine.swap_pipelines">>
                   /\ panicked' = "unwrap user_app" ]_vars

\* a tick that recreated after a resize and went on to update and draw
C20_Witness ==
    /\ last.recreate = "Ok"
    /\ Has(last.log, "user_app.resize")
    /\ Has(last.log, "update")
    /\ Has(last.log, "draw")
    /\ last.drawn # {}


----------------------------------------------------------------------------
\* C14: two updates with the same transform, light origin and
\* projection-view, one on a plane built with reverse_winding = FALSE and
\* one on a plane built with reverse_winding = TRUE, end with opposite
\* is_back.
C14_BackFaceSymmetry ==
    (memo # None /\ occ.updated) =>
        LET a == memo[1].inputs
            b == occ.inputs[1]
        IN  ( /\ a.transform = b.transform
              /\ a.origin = b.origin
              /\ a.projection_view = b.projection_view
              /\ a.reverse_winding # b.reverse_winding ) =>
            occ.outputs[1].is_back = ~memo[1].outputs.is_back

\* the same inputs went through a plane of each winding; the unreversed one
\* came out front-facing
C14_Witness ==
    /\ memo # None
    /\ occ.op = "update_buffers"
    /\ memo[1].inputs.reverse_winding
    /\ ~occ.inputs[1].reverse_winding
    /\ [memo[1].inputs EXCEPT !.reverse_winding = FALSE] = occ.inputs[1]
    /\ ~occ.outputs[1].is_back
    /\ memo[1].outputs.is_back

----------------------------------------------------------------------------
\* C15: two updates with the same transform, reverse_winding, light origin
\* and projection-view leave the same is_back, the same points and compute
\* the same vertices, whatever the plane went through before each of them.
C15_UpdateIsDeterministic ==
    (memo # None /\ occ.updated /\ occ.inputs[1] = memo[1].inputs) =>
        occ.outputs[1] = memo[1].outputs

\* the same inputs met a plane that was last front-facing and a plane that
\* was last back-facing
C15_Witness ==
    /\ memo # None
    /\ occ.op = "update_buffers"
    /\ occ.inputs[1] = memo[1].inputs
    /\ ~memo[1].before
    /\ occ.before[1]
    /\ ~occ.outputs[1].is_back

----------------------------------------------------------------------------
\* C16: after an update is_back is NOT (is_clockwise XOR reverse_winding);
\* a back-facing update records no vertex upload and the draw that follows
\* it in the same frame records no draw call; a front-facing update records
\* exactly one upload, of the 4 computed vertices into the plane's region,
\* and the draw that follows it records exactly one indexed draw of the
\* square's 6 indices.
C16_BackFacingSkipsUploadAndDraw ==
    occ.updated =>
        LET c == occ.calc[1]
        IN  /\ c.is_clockwise = (c.area > 0)
            /\ plane.is_back =
                  ((c.is_clockwise /\ plane.reverse_winding)
                   \/ (~c.is_clockwise /\ ~plane.reverse_winding))
            /\ plane.is_back =>
                  /\ occ.uploads = <<>>
                  /\ (occ.drawn /\ occ.draw_parity = plane.updated_buffers) =>
                        occ.draws = <<>>
            /\ ~plane.is_back =>
                  /\ Len(occ.uploads) = 1
                  /\ occ.uploads[1].data = c.vertices
                  /\ Len(occ.uploads[1].data) = 4
                  /\ occ.uploads[1].region = 4
                  /\ (occ.drawn /\ occ.draw_parity = plane.updated_buffers) =>
                        occ.draws = <<6>>

\* a clockwise winding on a reversed plane was back-facing and its draw
\* returned without a draw call
C16_Witness ==
    /\ occ.updated
    /\ occ.drawn
    /\ panicked = "none"
    /\ plane.is_back
    /\ plane.reverse_winding
    /\ occ.calc[1].is_clockwise
    /\ occ.draws = <<>>

----------------------------------------------------------------------------
\* C17: when the light origin is the plane's base point the update raises
\* no error, the extrusion has zero length, the far point of the winding
\* test is the base point itself, the signed area is zero, and is_back is
\* NOT reverse_winding; the area is zero and is_back the same when the
\* origin is the plane's other base point.
C17_OriginAtBasePoint ==
    occ.updated =>
        LET c == occ.calc[1]
            o == occ.inputs[1].origin
        IN  /\ o = <<c.base[1], c.base[2], c.base[3]>> =>
                  /\ panicked = "none" \/ occ.drawn
                  /\ c.extrusion = <<0, 0, 0>>
                  /\ c.far = c.near
                  /\ c.area = 0
                  /\ occ.outputs[1].is_back = ~occ.inputs[1].reverse_winding
            /\ o = <<c.base_right[1], c.base_right[2], c.base_right[3]>> =>
                  /\ c.area = 0
                  /\ occ.outputs[1].is_back = ~occ.inputs[1].reverse_winding

\* a turned, reversed plane lit from its own base point: front-facing, with
\* its degenerate quad uploaded
C17_Witness ==
    /\ occ.op = "update_buffers"
    /\ occ.inputs[1].origin = <<2, 1, 0>>
    /\ occ.calc[1].base = <<2, 1, 0, 2>>
    /\ occ.inputs[1].reverse_winding
    /\ ~plane.is_back
    /\ Len(occ.uploads) = 1


----------------------------------------------------------------------------
\* C18: a lookup by name never aborts; with a name under which an asset was
\* inserted it returns the id of the asset last inserted under that name;
\* with a name under which nothing was inserted, and which is not the
\* slash form of such a name either, it returns the id of the default asset
\* (the asset last inserted under the default's name).
C18_LookupReturnsRegisteredOrDefault ==
    asset_call.op = "lookup" =>
        LET name == asset_call.name[1] IN
        /\ panicked = "none"
        /\ name \in DOMAIN registered =>
              asset_call.id = Some(registered[name])
        /\ (\A n \in DOMAIN registered : name # n /\ name # Normalize(n)) =>
              asset_call.id = Some(registered[DefaultName(assets.kind)])

----------------------------------------------------------------------------
\* C19: set_inplace_model_same_sized with a model whose vertex count or
\* index count differs from the current model's aborts and leaves the
\* object as it was; with equal counts it does not abort, the object's
\* model is the new one and its vertex and index regions are the ones it
\* had.
C19_SameSizedModelSwap ==
    [][ object_call'.op = "set_inplace_model_same_sized" =>
          LET new == object_call'.model[1] IN
          IF new.vertices # object.model.vertices
             \/ new.indices # object.model.indices
          THEN /\ panicked' # "none"
               /\ object' = object
          ELSE /\ panicked' = "none"
               /\ object'.model = new
               /\ object'.subbuffer = object.subbuffer
               /\ object'.indices = object.indices
               /\ object'.updated_buffers = object.updated_buffers ]_vars

\* a model was swapped for another one of the same vertex and index counts
C19_Witness ==
    /\ object_call.op = "set_inplace_model_same_sized"
    /\ panicked = "none"
    /\ object.model = object_call.model[1]
    /\ object_call.old[1].content # object.model.content
    /\ object_call.old[1].uvs # object.model.uvs
    /\ object.model.vertices = 2
    /\ object.subbuffer = 2


----------------------------------------------------------------------------
\* the image slots whose completion signal the driver holds
InFlight(i) == IF i.fence = "None" THEN {} ELSE {i.fence_image[1]}

\* C21: after a submission whose flush succeeds, the completion signal of
\* the slot it targets is held; a held signal of a slot stays held over
\* every step that does not abort and is not a submission to that same
\* slot, a submission to another slot included.
C21_SignalKeptPerImageSlot ==
    [][ /\ (Tick /\ last'.flush = "Ok") =>
              last'.presented[1] \in InFlight(info')
        /\ \A slot \in InFlight(info) :
              ( /\ panicked' = "none"
                /\ ~( /\ Tick
                      /\ Has(last'.log, "then_signal_fence_and_flush")
                      /\ last'.presented = Some(slot) ) ) =>
              slot \in InFlight(info') ]_vars


----------------------------------------------------------------------------
\* C22: whatever the object was built from and whatever same-sized models
\* were swapped in, the vertex array that update_buffers uploads has as many
\* elements as the object's vertex region.
C22_UploadFillsVertexRegion ==
    object_call.op = "update_buffers" =>
        \A k \in DOMAIN object_call.uploads :
            object_call.uploads[k].data = object_call.uploads[k].region

----------------------------------------------------------------------------
\* C30: whatever the object was built from and whatever same-sized models
\* were swapped in, the index buffer that draw binds holds the index list of
\* the object's current model.
C30_IndexBufferHoldsModelIndices ==
    object_call.op = "draw" =>
        \A k \in DOMAIN object_call.draws :
            object_call.draws[k].index_buffer = IndexList(object.model)


----------------------------------------------------------------------------
\* C28: whatever the object's model, a draw of the object in a frame whose
\* update callback invoked update_buffers on it does not abort on the
\* updated-buffers check.
C28_UpdatedObjectDrawsSafely ==
    (last.event = "RedrawRequested" /\ last.ran) =>
        \A o \in last.updated \cap last.drawn :
            /\ panicked # "assert_updated"
            /\ needs_draw(objects[o].model) => o \in last.passed


----------------------------------------------------------------------------
\* C24: a RedrawRequested handled at nonzero size that does not abort ends
\* by requesting the next redraw, exactly once and as its last call,
\* whether the frame was drawn, the acquire was stale or the app is closed;
\* a RedrawRequested at zero size requests no redraw.
C24_RedrawRequestsNextRedraw ==
    last.event = "RedrawRequested" =>
        /\ (last.handled /\ panicked = "none") =>
              /\ Len(last.log) > 0
              /\ last.log[Len(last.log)] = "request_redraw"
              /\ Count(last.log, "request_redraw") = 1
        /\ ~last.handled => ~Has(last.log, "request_redraw")

\* a stale acquire in an initialized loop: no frame is run and the next
\* redraw is requested all the same
C24_Witness ==
    /\ last.event = "RedrawRequested" /\ last.handled
    /\ panicked = "none"
    /\ info.initialized /\ info.user_app
    /\ last.acquire = "OutOfDate" /\ ~last.ran
    /\ Has(last.log, "request_redraw")


----------------------------------------------------------------------------
\* C25: the recreate flag is set only in an initialized loop, so no
\* recreate is performed by a tick that starts before the first-frame
\* initialization, and every recreate that succeeds while the user app
\* exists is followed by both pipeline-swap notifications, and by the resize
\* notification when the window had been resized.
C25_RecreateFlagImpliesInitialized ==
    /\ info.recreate_swapchain => info.initialized
    /\ [][ /\ info'.recreate_swapchain => info'.initialized
           /\ (Tick /\ Has(last'.log, "recreate")) =>
                 /\ info.initialized
                 /\ (last'.recreate = "Ok" /\ info.user_app) =>
                       /\ Has(last'.log, "engine.swap_pipelines")
                       /\ Has(last'.log, "user_app.swap_pipelines")
                       /\ info.window_resized =>
                             Has(last'.log, "user_app.resize") ]_vars

\* the flag is up in an initialized loop, left by a suboptimal acquire
C25_Witness ==
    /\ info.recreate_swapchain /\ info.initialized
    /\ last.event = "RedrawRequested" /\ last.acquire = "Suboptimal"


----------------------------------------------------------------------------
\* the callbacks of the user app as they appear in a tick's log
UserAppCalls ==
    { "UserApp::init", "update", "draw", "user_app.swap_pipelines",
      "user_app.resize" }

\* C26: once the window was closed, a later RedrawRequested invokes no
\* callback of the user app and, unless the device fails the recreate or
\* the acquire, does not abort, whatever the resize and recreate flags are.
C26_ClosedAppRedrawIsQuiet ==
    [][ ( /\ Tick /\ info.initialized /\ ~info.user_app
          /\ last'.recreate # "Err" /\ last'.acquire # "Err" ) =>
            /\ panicked' = "none"
            /\ \A c \in UserAppCalls : ~Has(last'.log, c) ]_vars


----------------------------------------------------------------------------
InputEvents == {"CursorMoved", "MouseInput", "MouseWheel", "KeyboardInput"}

\* C23: a keyboard, mouse-button, scroll or cursor-move event reaches the
\* user app (input, or mouse_move for the cursor) only when the first-frame
\* initialization is done and the user app exists; before it and after
\* CloseRequested the event is dropped without a callback, and so is a
\* cursor move while the surface has zero width or height.
C23_InputForwardedOnlyToLiveApp ==
    last.event \in InputEvents =>
        /\ last.log # <<>> => info.initialized /\ info.user_app
        /\ (last.event = "CursorMoved" /\ ZeroSized(surface_size)) =>
              last.log = <<>>
        /\ last.log \in
              IF last.event = "CursorMoved"
              THEN {<<>>, <<"mouse_move">>} ELSE {<<>>, <<"input">>}

\* a key event after the close is dropped, in a loop that was initialized
C23_Witness ==
    /\ last.event = "KeyboardInput" /\ last.log = <<>>
    /\ info.initialized /\ ~info.user_app


----------------------------------------------------------------------------
\* C29: for every name, right after an asset is inserted under that name a
\* lookup of the same name returns the id the insertion assigned, and that
\* id indexes the inserted asset.
C29_NameRoundTrip ==
    (asset_call.op \in {"add", "edited_copy"} /\ asset_call.id # None) =>
        /\ get_id(assets.storage, asset_call.name[1]) = asset_call.id
        /\ asset_call.id[1] + 1 \in DOMAIN assets.storage.data
        /\ assets.storage.data[asset_call.id[1] + 1] =
              IF asset_call.op = "add" THEN "added" ELSE "edited"


----------------------------------------------------------------------------
\* a tick that recreated with the viewport and the pipelines rebuilt and
\* told the user app the new aspect
ResizeDelivered ==
    /\ last.event = "RedrawRequested"
    /\ Has(last.log, "recreate")
    /\ Has(last.log, "pipelines")
    /\ Has(last.log, "user_app.resize")

\* C27: as long as redraws at nonzero size keep acquiring an image, every
\* Resized event, also one that arrives before the first-frame
\* initialization, is eventually followed by a recreate that rebuilds the
\* viewport and the pipelines and by the resize callback of the user app,
\* unless the loop aborts or the app is closed first.
C27_ResizedLeadsToResizeCallback ==
    (last.event = "Resized") ~>
        \/ ResizeDelivered
        \/ panicked # "none"
        \/ info.initialized /\ ~info.user_app

C27_Witness ==
    /\ ResizeDelivered
    /\ panicked = "none"
    /\ info.user_app /\ ~info.window_resized

============================================================================
